---- MODULE Spec2Model ----
(***************************************************************************)
(* Traceable SDK: the retention buffer (src/utils/buffer.ts), the worker   *)
(* that owns it (src/worker/recorder.worker.ts and its later revision      *)
(* with tags and breadcrumbs), and the message channel from the SDK.       *)
(*                                                                         *)
(* Indices are JavaScript's: 0-based, -1 for "not found".  At(buf, i) is   *)
(* buf[i].                                                                 *)
(***************************************************************************)
EXTENDS Integers, Sequences, FiniteSets, TLC

VARIABLES
    now,          \* Date.now(): the wall clock the next handler will read
    buffer,       \* CircularBuffer.buffer
    maxAgeMs,     \* CircularBuffer.maxAgeMs
    userInfo,     \* worker module state
    tags,         \* worker module state (tag revision only)
    breadcrumbs,  \* worker module state (tag revision only)
    worker,       \* which worker file is running
    reply,        \* what the last command returned to its caller
    channel,      \* messages posted by the SDK and not yet handled by the worker
    nextId,       \* history: number of events produced so far
    history,      \* history: the events added since the buffer was created or cleared
    made,         \* history: number of breadcrumbs produced so far
    op,           \* history: the last operation performed
    dropped,      \* history: how many events the last add's prune removed
    sentBefore,   \* history: events the SDK had emitted when it requested the
                  \*          export handled last
    held,         \* the array a caller of getAll() holds
    configured,   \* history: the ms of the latest setBufferSize call, 0 before any
    sdk           \* the TraceableSDK object, with the page state it changes

vars == <<now, buffer, maxAgeMs, userInfo, tags, breadcrumbs, worker, reply,
          channel, nextId, history, made, op, dropped, sentBefore, held,
          configured, sdk>>

---------------------------------------------------------------------------
\* Bounds of the model.

\* events produced in one behaviour
MaxAdds == 3
\* the wall clock takes the values 0, Step, ..., MaxTick * Step
MaxTick == 3
\* clock steps per default retention window
StepsPerWindow == 2
\* events and breadcrumbs produced in one behaviour of the worker
MaxWorkerAdds == 2
MaxWorkerCrumbs == 1
\* breadcrumbs added beyond the cap
CapSlack == 2
\* messages posted to the worker and not yet handled
MaxInFlight == 3
\* events recorded in one behaviour with periodic checkouts
MaxRecorded == 5
\* init() calls in one behaviour of the SDK
MaxInits == 2

---------------------------------------------------------------------------
\* Program constants.

DefaultMaxAgeMs == 30000
FullSnapshot == 2
IncrementalSnapshot == 3

Step == DefaultMaxAgeMs \div StepsPerWindow
Times == {k * Step : k \in 0..MaxTick}
\* retention windows a caller configures
Ages == {Step, DefaultMaxAgeMs}
EventTypes == {FullSnapshot, IncrementalSnapshot}

\* An event: rrweb's {type, data, timestamp}.  id stands for the object's
\* identity (the n-th event handed to the buffer); data is its payload.
PlainData == "obj"
EventsWith(n, payloads) ==
    [id : {n}, timestamp : Times, type : EventTypes, data : payloads]

At(buf, i) == buf[i + 1]
Range(s) == {s[i] : i \in 1..Len(s)}

---------------------------------------------------------------------------
\* CircularBuffer (src/utils/buffer.ts)

\* Array.prototype.findIndex(e => e.timestamp >= cutoff)
findIndex(buf, cutoff) ==
    IF \E i \in 0..(Len(buf) - 1) : At(buf, i).timestamp >= cutoff
    THEN CHOOSE i \in 0..(Len(buf) - 1) :
            /\ At(buf, i).timestamp >= cutoff
            /\ \A j \in 0..(i - 1) : At(buf, j).timestamp < cutoff
    ELSE -1

\* a forward scan, which finds the oldest FullSnapshot
snapshotIndexBefore_First(buf, endIndex) ==
    IF \E i \in 0..(endIndex - 1) : At(buf, i).type = FullSnapshot
    THEN CHOOSE i \in 0..(endIndex - 1) :
            /\ At(buf, i).type = FullSnapshot
            /\ \A j \in 0..(i - 1) : At(buf, j).type # FullSnapshot
    ELSE -1

\* the backward scan "for (let i = endIndex - 1; i >= 0; i--)" for a FullSnapshot
snapshotIndexBefore(buf, endIndex) ==
    IF \E i \in 0..(endIndex - 1) : At(buf, i).type = FullSnapshot
    THEN CHOOSE i \in 0..(endIndex - 1) :
            /\ At(buf, i).type = FullSnapshot
            /\ \A j \in (i + 1)..(endIndex - 1) : At(buf, j).type # FullSnapshot
    ELSE -1

\* a splice that removes from the end of the array
spliceFront_FromEnd(buf, count) == SubSeq(buf, 1, Len(buf) - count)

\* buf after buf.splice(0, count)
spliceFront(buf, count) == SubSeq(buf, count + 1, Len(buf))

\* a collapse that keeps the oldest FullSnapshot
keepLastSnapshotAndClearOthers_KeepFirst(buf, endIndex) ==
    IF \E i \in 0..(endIndex - 1) : At(buf, i).type = FullSnapshot
    THEN <<At(buf, CHOOSE i \in 0..(endIndex - 1) :
                      /\ At(buf, i).type = FullSnapshot
                      /\ \A j \in 0..(i - 1) : At(buf, j).type # FullSnapshot)>>
    ELSE <<>>

\* a prune that cuts at the cutoff whatever it removes
keepLastSnapshotAndClearOthers_Clear(buf, endIndex) == <<>>

keepLastSnapshotAndClearOthers(buf, endIndex) ==
    LET snapshotIndex == snapshotIndexBefore(buf, endIndex)
    IN  IF snapshotIndex # -1
        THEN <<At(buf, snapshotIndex)>>
        ELSE <<>>

\* a prune that clears the buffer when it finds no FullSnapshot to anchor to
prune_ClearUnanchored(buf, age, t) ==
    IF Len(buf) = 0 THEN buf
    ELSE LET firstValidIndex == findIndex(buf, t - age)
         IN  IF firstValidIndex = 0 THEN buf
             ELSE IF firstValidIndex = -1
             THEN keepLastSnapshotAndClearOthers(buf, Len(buf))
             ELSE LET snapshotIndex == snapshotIndexBefore(buf, firstValidIndex)
                  IN  IF snapshotIndex # -1
                      THEN spliceFront(buf, snapshotIndex)
                      ELSE <<>>

\* a prune that drops every expired event, wherever it stands
prune_Filter(buf, age, t) ==
    SelectSeq(buf, LAMBDA e : e.timestamp >= t - age)

\* a prune that keeps a fixed number of events instead of the window
prune_KeepLast(buf, age, t) ==
    IF Len(buf) > 1 THEN SubSeq(buf, Len(buf), Len(buf)) ELSE buf

\* a prune that always cuts at the first in-window event
prune_NoAnchor(buf, age, t) ==
    IF Len(buf) = 0 THEN buf
    ELSE LET firstValidIndex == findIndex(buf, t - age)
         IN  IF firstValidIndex = 0 THEN buf
             ELSE IF firstValidIndex = -1 THEN <<>>
             ELSE spliceFront(buf, firstValidIndex)

prune(buf, age, t) ==
    IF Len(buf) = 0 THEN buf
    ELSE LET cutoff == t - age
             firstValidIndex == findIndex(buf, cutoff)
         IN  IF firstValidIndex = 0 THEN buf
             ELSE IF firstValidIndex = -1
             THEN keepLastSnapshotAndClearOthers(buf, Len(buf))
             ELSE LET snapshotIndex == snapshotIndexBefore(buf, firstValidIndex)
                  IN  IF snapshotIndex # -1
                      THEN IF snapshotIndex > 0
                           THEN spliceFront(buf, snapshotIndex)
                           ELSE buf
                      ELSE spliceFront(buf, firstValidIndex)

\* an add that never prunes
add_NoPrune(buf, age, t, event) == Append(buf, event)

\* add(event): push, then prune against Date.now()
add(buf, age, t, event) == prune(Append(buf, event), age, t)

getAll(buf) == [i \in 1..Len(buf) |-> buf[i]]

\* An array a caller holds: its elements, and whether it is the very array
\* object the CircularBuffer keeps in this.buffer.
Array(items, shared) == [taken |-> TRUE, shared |-> shared, items |-> items]
NoArray == [taken |-> FALSE, shared |-> FALSE, items |-> <<>>]

\* a getAll that hands out this.buffer itself
spread_SameArray(buf) == Array(buf, TRUE)

\* [...this.buffer]: a new array object with the same elements
spread(buf) == Array(getAll(buf), FALSE)

---------------------------------------------------------------------------
\* The worker's values.

Null == "null"
\* src/worker/recorder.worker.ts: buffer and userInfo
RecorderWorker == "recorder.worker.ts"
\* its revision with tags and breadcrumbs, whose setBufferSize only warns
TagWorker == "recorder.worker.ts+tags"
Workers == {RecorderWorker, TagWorker}

\* Payload values as JSON.stringify treats them: a plain JSON object, a
\* non-finite number (written as null), a circular structure (throws).
NaNData == "NaN"
CyclicData == "cyclic"
Payloads == {PlainData, NaNData, CyclicData}

UserInfos == {"user-123", CyclicData}
TagKeys == {"plan", "role"}
TagValues == {"a", "b"}
Reasons == {"unknown", "manual"}
NoTags == [k \in {} |-> Null]
MaxBreadcrumbs == 100

\* A breadcrumb {category, message, level?, data?, timestamp}: id stands for the
\* object's identity (the n-th breadcrumb handed to the worker).
Breadcrumb(n, t, d) == [id |-> n, timestamp |-> t, data |-> d]

\* a call that leaves the argument out
Undefined == "undefined"
\* exportData(reason: string = 'unknown')
defaultReason(r) == IF r = Undefined THEN "unknown" ELSE r
Identities == {"user-123", "user-456"}

NoReply == [kind |-> "none"]
Thrown == [kind |-> "error"]

---------------------------------------------------------------------------
\* The export pipeline (api.exportData) and the viewer's decoding.

\* JSON.stringify of one payload value / JSON.parse of what it wrote
stringifyValue(d) == IF d = NaNData THEN "null" ELSE d
parseValue(tok) == IF tok = "null" THEN Null ELSE tok

\* JSON.stringify throws on a circular structure
canStringify(d) == d # CyclicData

\* a serializer that writes the newest event first
stringifyEvents_Reversed(events) ==
    [i \in 1..Len(events) |->
        [events[Len(events) + 1 - i]
            EXCEPT !.data = stringifyValue(events[Len(events) + 1 - i].data)]]

\* JSON.stringify(events): the array in order, each event's fields in order
stringifyEvents(events) ==
    [i \in 1..Len(events) |->
        [events[i] EXCEPT !.data = stringifyValue(events[i].data)]]

\* JSON.parse(jsonStr) in the viewer
parseEvents(text) ==
    [i \in 1..Len(text) |-> [text[i] EXCEPT !.data = parseValue(text[i].data)]]

\* the meta object of the export, as each worker builds it
metaOf(w, t, reason, info, tgs, crumbs) ==
    IF w = TagWorker
    THEN [timestamp |-> t, reason |-> reason, userInfo |-> info, tags |-> tgs,
          breadcrumbs |-> crumbs, userAgent |-> "userAgent", url |-> "href"]
    ELSE [timestamp |-> t, reason |-> reason, userInfo |-> info,
          userAgent |-> "userAgent", url |-> "href"]

canStringifyMeta(w, info, crumbs) ==
    /\ canStringify(info)
    /\ w = TagWorker => \A i \in 1..Len(crumbs) : canStringify(crumbs[i].data)

\* JSON.stringify(meta, null, 2)
stringifyMeta(meta) ==
    IF "breadcrumbs" \in DOMAIN meta
    THEN [meta EXCEPT !.userInfo = stringifyValue(@),
                      !.breadcrumbs = [i \in 1..Len(@) |->
                            [@[i] EXCEPT !.data = stringifyValue(@)]]]
    ELSE [meta EXCEPT !.userInfo = stringifyValue(@)]

\* zipSync({'recording.json': eventsBuf, 'meta.json': metaBuf})
zipSync(eventsBuf, metaBuf) ==
    ("recording.json" :> eventsBuf) @@ ("meta.json" :> metaBuf)

\* an export that treats an empty buffer as an error
exportData_RejectEmpty(w, buf, t, reason, info, tgs, crumbs) ==
    LET events == getAll(buf)
    IN  IF events = <<>> \/ \E i \in 1..Len(events) : ~canStringify(events[i].data)
        THEN Thrown
        ELSE IF ~canStringifyMeta(w, info, crumbs)
        THEN Thrown
        ELSE [kind |-> "bundle",
              zip |-> zipSync(stringifyEvents(events),
                              stringifyMeta(metaOf(w, t, reason, info, tgs, crumbs)))]

\* what exportData returns: the bundle, or the exception it throws
exportData(w, buf, t, reason, info, tgs, crumbs) ==
    LET events == getAll(buf)
    IN  IF \E i \in 1..Len(events) : ~canStringify(events[i].data)
        THEN Thrown
        ELSE IF ~canStringifyMeta(w, info, crumbs)
        THEN Thrown
        ELSE [kind |-> "bundle",
              zip |-> zipSync(stringifyEvents(events),
                              stringifyMeta(metaOf(w, t, reason, info, tgs, crumbs)))]

\* a viewer that insists on meta.json
processFile_NeedsMeta(zip) ==
    IF {"recording.json", "meta.json"} \subseteq DOMAIN zip
    THEN [ok |-> TRUE, events |-> parseEvents(zip["recording.json"])]
    ELSE [ok |-> FALSE, events |-> <<>>]

\* the viewer's processFile: unzip, take recording.json, parse it
processFile(zip) ==
    IF "recording.json" \in DOMAIN zip
    THEN [ok |-> TRUE, events |-> parseEvents(zip["recording.json"])]
    ELSE [ok |-> FALSE, events |-> <<>>]

\* the same archive as the first worker wrote it: recording.json alone
recordingOnly(zip) == [k \in {"recording.json"} |-> zip[k]]

\* a log that refuses the newest entry once it is full
pushBreadcrumb_KeepOldest(crumbs, b) ==
    IF Len(crumbs) >= MaxBreadcrumbs THEN crumbs ELSE Append(crumbs, b)

\* addBreadcrumb: push, then shift when longer than 100
pushBreadcrumb(crumbs, b) ==
    LET pushed == Append(crumbs, b)
    IN  IF Len(pushed) > MaxBreadcrumbs THEN Tail(pushed) ELSE pushed

---------------------------------------------------------------------------
\* The wall clock.

\* The wall clock moves (forward, or back when the system clock is set).
Tick ==
    /\ \E t \in Times : t # now /\ now' = t
    /\ op' = "tick"
    /\ UNCHANGED <<buffer, maxAgeMs, userInfo, tags, breadcrumbs, worker, reply,
                   channel, nextId, history, made, dropped, sentBefore, held, configured, sdk>>

\* The wall clock moves forward.
TickForward ==
    /\ \E t \in Times : t > now /\ now' = t
    /\ op' = "tick"
    /\ UNCHANGED <<buffer, maxAgeMs, userInfo, tags, breadcrumbs, worker, reply,
                   channel, nextId, history, made, dropped, sentBefore, held, configured, sdk>>

---------------------------------------------------------------------------
\* The worker's handlers (the api object): what each does to the worker's
\* state.  They leave the channel and the producers' counters to the caller.

\* api.addEvent(event) -> buffer.add(event)
addEvent(e) ==
    /\ buffer' = add(buffer, maxAgeMs, now, e)
    /\ history' = Append(history, e)
    /\ dropped' = Len(buffer) + 1 - Len(buffer')
    /\ op' = "addEvent"
    /\ reply' = NoReply
    /\ UNCHANGED <<now, maxAgeMs, userInfo, tags, breadcrumbs, worker>>

\* api.setBufferSize(ms): recorder.worker.ts replaces the buffer by a new
\* CircularBuffer(ms); the tag revision only logs a warning.
setBufferSize(ms) ==
    /\ IF worker = RecorderWorker
       THEN /\ buffer' = <<>>
            /\ maxAgeMs' = ms
            /\ history' = <<>>
       ELSE UNCHANGED <<buffer, maxAgeMs, history>>
    /\ op' = "setBufferSize"
    /\ reply' = NoReply
    /\ dropped' = 0
    /\ UNCHANGED <<now, userInfo, tags, breadcrumbs, worker>>

\* api.setUserInfo(info)
setUserInfo(info) ==
    /\ userInfo' = info
    /\ op' = "setUserInfo"
    /\ reply' = NoReply
    /\ dropped' = 0
    /\ UNCHANGED <<now, buffer, maxAgeMs, tags, breadcrumbs, worker, history>>

\* a setTag that starts the mapping over with the one key
setTag_Replace(key, value) ==
    /\ worker = TagWorker
    /\ tags' = [k \in {key} |-> value]
    /\ op' = "setTag"
    /\ reply' = NoReply
    /\ dropped' = 0
    /\ UNCHANGED <<now, buffer, maxAgeMs, userInfo, breadcrumbs, worker, history>>

\* api.setTag(key, value): tag revision only
setTag(key, value) ==
    /\ worker = TagWorker
    /\ tags' = [k \in DOMAIN tags \cup {key} |-> IF k = key THEN value ELSE tags[k]]
    /\ op' = "setTag"
    /\ reply' = NoReply
    /\ dropped' = 0
    /\ UNCHANGED <<now, buffer, maxAgeMs, userInfo, breadcrumbs, worker, history>>

\* an addBreadcrumb whose eviction also takes the oldest event
addBreadcrumb_SharedEviction(b) ==
    /\ worker = TagWorker
    /\ breadcrumbs' = pushBreadcrumb(breadcrumbs, b)
    /\ buffer' = IF Len(breadcrumbs) >= MaxBreadcrumbs /\ buffer # <<>>
                 THEN Tail(buffer) ELSE buffer
    /\ op' = "addBreadcrumb"
    /\ reply' = NoReply
    /\ dropped' = 0
    /\ UNCHANGED <<now, maxAgeMs, userInfo, tags, worker, history>>

\* api.addBreadcrumb(breadcrumb): tag revision only
addBreadcrumb(b) ==
    /\ worker = TagWorker
    /\ breadcrumbs' = pushBreadcrumb(breadcrumbs, b)
    /\ op' = "addBreadcrumb"
    /\ reply' = NoReply
    /\ dropped' = 0
    /\ UNCHANGED <<now, buffer, maxAgeMs, userInfo, tags, worker, history>>

\* an export that hands the events over and empties the buffer
exportDataHandler_Drain(reason) ==
    /\ reply' = exportData(worker, buffer, now, reason, userInfo, tags, breadcrumbs)
    /\ buffer' = IF reply'.kind = "bundle" THEN <<>> ELSE buffer
    /\ op' = "exportData"
    /\ dropped' = 0
    /\ UNCHANGED <<now, maxAgeMs, userInfo, tags, breadcrumbs, worker, history>>

\* an export that empties the buffer it could not serialize
exportDataHandler_ClearOnFailure(reason) ==
    /\ reply' = exportData(worker, buffer, now, reason, userInfo, tags, breadcrumbs)
    /\ buffer' = IF reply' = Thrown THEN <<>> ELSE buffer
    /\ op' = "exportData"
    /\ dropped' = 0
    /\ UNCHANGED <<now, maxAgeMs, userInfo, tags, breadcrumbs, worker, history>>

\* api.exportData(reason)
exportDataHandler(reason) ==
    /\ reply' = exportData(worker, buffer, now, reason, userInfo, tags, breadcrumbs)
    /\ op' = "exportData"
    /\ dropped' = 0
    /\ UNCHANGED <<now, buffer, maxAgeMs, userInfo, tags, breadcrumbs, worker, history>>

\* api.clear(): recorder.worker.ts clears the buffer; the tag revision also
\* resets breadcrumbs and tags.
clear ==
    /\ buffer' = <<>>
    /\ history' = <<>>
    /\ IF worker = TagWorker
       THEN breadcrumbs' = <<>> /\ tags' = NoTags
       ELSE UNCHANGED <<breadcrumbs, tags>>
    /\ op' = "clear"
    /\ reply' = NoReply
    /\ dropped' = 0
    /\ UNCHANGED <<now, maxAgeMs, userInfo, worker>>

---------------------------------------------------------------------------
\* Commands run on the worker one at a time, as their caller issues them.

AddEvent(e) ==
    /\ nextId < MaxAdds
    /\ e.id = nextId + 1
    /\ nextId' = nextId + 1
    /\ addEvent(e)
    /\ UNCHANGED <<channel, made, sentBefore, held, configured, sdk>>

SetBufferSize(ms) ==
    /\ setBufferSize(ms)
    /\ configured' = ms
    /\ UNCHANGED <<channel, nextId, made, sentBefore, held, sdk>>

SetUserInfo(info) ==
    setUserInfo(info) /\ UNCHANGED <<channel, nextId, made, sentBefore, held, configured, sdk>>

SetTag(key, value) ==
    setTag(key, value) /\ UNCHANGED <<channel, nextId, made, sentBefore, held, configured, sdk>>

AddBreadcrumb(b) ==
    /\ b.id = made + 1
    /\ made' = made + 1
    /\ addBreadcrumb(b)
    /\ UNCHANGED <<channel, nextId, sentBefore, held, configured, sdk>>

ExportData(reason) ==
    exportDataHandler(reason) /\ UNCHANGED <<channel, nextId, made, sentBefore, held, configured, sdk>>

Clear ==
    clear /\ UNCHANGED <<channel, nextId, made, sentBefore, held, configured, sdk>>

---------------------------------------------------------------------------
\* The SDK and the Comlink channel to the worker.

Message(cmd, arg, before) == [cmd |-> cmd, arg |-> arg, before |-> before]

\* the worker takes the newest message first
deliver_Newest(ch) ==
    [msg |-> ch[Len(ch)], rest |-> SubSeq(ch, 1, Len(ch) - 1)]

\* the worker's message listener takes messages in the order posted
deliver(ch) == [msg |-> Head(ch), rest |-> Tail(ch)]

\* emit: (event) => this.remote.addEvent(event), the event stamped by rrweb
Emit(e) ==
    /\ nextId < MaxAdds
    /\ Len(channel) < MaxInFlight
    /\ e.id = nextId + 1
    /\ e.timestamp = now
    /\ nextId' = nextId + 1
    /\ channel' = Append(channel, Message("addEvent", e, nextId))
    /\ op' = "emit"
    /\ UNCHANGED <<now, buffer, maxAgeMs, userInfo, tags, breadcrumbs, worker,
                   reply, history, made, dropped, sentBefore, held, configured, sdk>>

\* capture(reason): await this.remote.exportData(reason)
Capture(reason) ==
    /\ Len(channel) < MaxInFlight
    /\ channel' = Append(channel, Message("exportData", reason, nextId))
    /\ op' = "capture"
    /\ UNCHANGED <<now, buffer, maxAgeMs, userInfo, tags, breadcrumbs, worker,
                   reply, nextId, history, made, dropped, sentBefore, held, configured, sdk>>

\* Comlink.expose(api): the listener applies the api method the message names
Handle ==
    /\ channel # <<>>
    /\ LET d == deliver(channel)
       IN  /\ channel' = d.rest
           /\ sentBefore' = d.msg.before
           /\ \/ d.msg.cmd = "addEvent" /\ addEvent(d.msg.arg)
              \/ d.msg.cmd = "exportData" /\ exportDataHandler(d.msg.arg)
    /\ UNCHANGED <<nextId, made, held, configured, sdk>>

---------------------------------------------------------------------------
\* TraceableSDK (src/core/sdk.ts) and its revision with the recording
\* started by init().

CurrentSdk == "sdk.ts"
LegacySdk == "sdk.ts, init() records"
SdkRevisions == {CurrentSdk, LegacySdk}

\* sampleRate and Math.random() in hundredths
FullRate == 100
SampleRates == {0, 50, FullRate}
Draws == {0, 25, 75}

\* private options = {bufferSizeMs: 30000, autoStart: false, sampleRate: 1.0};
\* plugins is the number of plugins listed, none by default
DefaultOptions ==
    [bufferSizeMs |-> DefaultMaxAgeMs, autoStart |-> FALSE,
     sampleRate |-> FullRate, plugins |-> 0]

\* The SDK as constructed: stopFn is "this.stopFn is not null", recorders the
\* rrweb recorders running, installed the plugin install() calls made,
\* uiMounted whether #traceable-sdk-host is in the page; inits, draw and
\* recorded are history: the init() calls made, the last Math.random() drawn,
\* and what the last start() got from rrweb.record ("skipped" if it returned
\* before calling it).
NewSdk ==
    [revision |-> CurrentSdk, stopFn |-> FALSE, recorders |-> 0,
     options |-> DefaultOptions, installed |-> 0, uiMounted |-> FALSE,
     inits |-> 0, draw |-> 0, recorded |-> "skipped"]

---------------------------------------------------------------------------
\* The buffer alone: new CircularBuffer(maxAgeMs), then add calls at any
\* wall-clock values.

InitBuffer ==
    /\ now \in Times
    /\ buffer = <<>>
    /\ maxAgeMs \in Ages
    /\ userInfo = Null
    /\ tags = NoTags
    /\ breadcrumbs = <<>>
    /\ worker = RecorderWorker
    /\ reply = NoReply
    /\ channel = <<>>
    /\ nextId = 0
    /\ history = <<>>
    /\ made = 0
    /\ op = "new"
    /\ dropped = 0
    /\ sentBefore = 0
    /\ held = NoArray
    /\ configured = 0
    /\ sdk = NewSdk

NextBuffer ==
    \/ Tick
    \/ \E e \in EventsWith(nextId + 1, {PlainData}) : AddEvent(e)

SpecBuffer == InitBuffer /\ [][NextBuffer]_vars

---------------------------------------------------------------------------
\* The worker: module state as loaded, then any sequence of commands.  The
\* capture layer stamps each event with the current time.

InitWorker ==
    /\ now = 0
    /\ buffer = <<>>
    /\ maxAgeMs = DefaultMaxAgeMs
    /\ userInfo = Null
    /\ tags = NoTags
    /\ breadcrumbs = <<>>
    /\ worker \in Workers
    /\ reply = NoReply
    /\ channel = <<>>
    /\ nextId = 0
    /\ history = <<>>
    /\ made = 0
    /\ op = "new"
    /\ dropped = 0
    /\ sentBefore = 0
    /\ held = NoArray
    /\ configured = 0
    /\ sdk = NewSdk

StampedEvents(payloads) ==
    [id : {nextId + 1}, timestamp : {now}, type : EventTypes, data : payloads]

NextWorker ==
    \/ TickForward
    \/ \E e \in StampedEvents({PlainData, CyclicData}) :
          nextId < MaxWorkerAdds /\ AddEvent(e)
    \/ \E ms \in Ages : SetBufferSize(ms)
    \/ SetUserInfo("user-123")
    \/ SetTag("plan", "a")
    \/ made < MaxWorkerCrumbs /\ AddBreadcrumb(Breadcrumb(made + 1, Step, PlainData))
    \/ ExportData("manual")
    \/ Clear

SpecWorker == InitWorker /\ [][NextWorker]_vars

---------------------------------------------------------------------------
\* The export pipeline: events with any payload, exported at any time.

NextExport ==
    \/ TickForward
    \/ \E e \in StampedEvents(Payloads) : nextId < MaxWorkerAdds /\ AddEvent(e)
    \/ \E reason \in Reasons : ExportData(reason)

SpecExport == InitWorker /\ [][NextExport]_vars

---------------------------------------------------------------------------
\* The breadcrumb log: one addBreadcrumb after another, past the cap.

InitCap == InitWorker /\ worker = TagWorker

NextCap ==
    /\ made < MaxBreadcrumbs + CapSlack
    /\ AddBreadcrumb(Breadcrumb(made + 1, Step, PlainData))

SpecCap == InitCap /\ [][NextCap]_vars

---------------------------------------------------------------------------
\* The SDK recording and capturing while the worker handles its messages.

NextChannel ==
    \/ TickForward
    \/ \E e \in StampedEvents({PlainData}) : Emit(e)
    \/ Capture("manual")
    \/ Handle

SpecChannel == InitWorker /\ [][NextChannel]_vars

---------------------------------------------------------------------------
\* A caller of getAll(): it takes the array and then changes it in place.

\* const events = buffer.getAll()
GetAll ==
    /\ held' = spread(buffer)
    /\ op' = "getAll"
    /\ UNCHANGED <<now, buffer, maxAgeMs, userInfo, tags, breadcrumbs, worker,
                   reply, channel, nextId, history, made, dropped, sentBefore,
                   configured, sdk>>

\* an event object of the caller's own
ForeignEvent == [id |-> 0, timestamp |-> now, type |-> IncrementalSnapshot,
                 data |-> PlainData]

\* events.push(x): changes the array object, and with it this.buffer when
\* the two are one object
CallerPush ==
    /\ held.taken
    /\ Len(held.items) < MaxAdds
    /\ held' = [held EXCEPT !.items = Append(@, ForeignEvent)]
    /\ buffer' = IF held.shared THEN held'.items ELSE buffer
    /\ op' = "callerPush"
    /\ UNCHANGED <<now, maxAgeMs, userInfo, tags, breadcrumbs, worker, reply,
                   channel, nextId, history, made, dropped, sentBefore,
                   configured, sdk>>

\* events.pop()
CallerPop ==
    /\ held.taken
    /\ held.items # <<>>
    /\ held' = [held EXCEPT !.items = SubSeq(@, 1, Len(@) - 1)]
    /\ buffer' = IF held.shared THEN held'.items ELSE buffer
    /\ op' = "callerPop"
    /\ UNCHANGED <<now, maxAgeMs, userInfo, tags, breadcrumbs, worker, reply,
                   channel, nextId, history, made, dropped, sentBefore,
                   configured, sdk>>

NextRead ==
    \/ TickForward
    \/ \E e \in StampedEvents({PlainData}) : nextId < MaxWorkerAdds /\ AddEvent(e)
    \/ GetAll
    \/ CallerPush
    \/ CallerPop

SpecRead == InitBuffer /\ [][NextRead]_vars

---------------------------------------------------------------------------
\* Exports of a buffer that may be empty: as loaded, cleared, reconfigured,
\* or emptied by a prune of events that reach the worker after they expired.

\* events stamped when the page loaded or just now
LateEvents ==
    [id : {nextId + 1}, timestamp : {0, now}, type : EventTypes, data : {PlainData}]

NextEmptyExport ==
    \/ TickForward
    \/ \E e \in LateEvents : nextId < MaxWorkerAdds /\ AddEvent(e)
    \/ SetBufferSize(Step)
    \/ \E info \in UserInfos : SetUserInfo(info)
    \/ Clear
    \/ ExportData("manual")

SpecEmptyExport == InitWorker /\ [][NextEmptyExport]_vars

---------------------------------------------------------------------------
\* Recording with periodic checkouts: every event is stamped with the clock
\* and handed to the buffer at once, and the capture layer has taken a
\* FullSnapshot within every SnapshotPeriod.

\* the checkout interval (checkoutEveryNms), in clock steps
SnapshotPeriod == Step

\* emit: the event rrweb has just stamped goes straight to buffer.add
Record(e) ==
    /\ nextId < MaxRecorded
    /\ e.id = nextId + 1
    /\ nextId' = nextId + 1
    /\ addEvent(e)
    /\ UNCHANGED <<channel, made, sentBefore, held, configured, sdk>>

\* time passes, but never beyond SnapshotPeriod after the latest FullSnapshot
TickWithinPeriod ==
    /\ \E t \in Times :
          /\ t > now
          /\ \E i \in 1..Len(history) :
                /\ history[i].type = FullSnapshot
                /\ history[i].timestamp >= t - SnapshotPeriod
          /\ now' = t
    /\ op' = "tick"
    /\ UNCHANGED <<buffer, maxAgeMs, userInfo, tags, breadcrumbs, worker, reply,
                   channel, nextId, history, made, dropped, sentBefore, held,
                   configured, sdk>>

InitPeriodic == InitBuffer /\ now = 0

NextPeriodic ==
    \/ TickWithinPeriod
    \/ \E e \in StampedEvents({PlainData}) : Record(e)

SpecPeriodic == InitPeriodic /\ [][NextPeriodic]_vars

---------------------------------------------------------------------------
\* The session state and the metadata of exports: identity, tags and
\* breadcrumbs set in any order, exports with and without a reason.

NextMeta ==
    \/ \E e \in StampedEvents({PlainData}) : nextId < MaxWorkerAdds /\ AddEvent(e)
    \/ \E info \in Identities \cup UserInfos : SetUserInfo(info)
    \/ \E key \in TagKeys, value \in TagValues : SetTag(key, value)
    \/ made <= MaxWorkerCrumbs /\ AddBreadcrumb(Breadcrumb(made + 1, Step, PlainData))
    \/ \E r \in {Undefined, "manual"} : ExportData(defaultReason(r))
    \/ Clear

SpecMeta == InitWorker /\ [][NextMeta]_vars

---------------------------------------------------------------------------
\* Breadcrumbs past their cap next to a buffer that prunes.

NextEvictions ==
    \/ TickForward
    \/ \E e \in LateEvents : nextId < MaxWorkerAdds /\ AddEvent(e)
    \/ made < MaxBreadcrumbs + CapSlack
          /\ AddBreadcrumb(Breadcrumb(made + 1, Step, PlainData))
    \/ userInfo = Null /\ SetUserInfo("user-123")

SpecEvictions == InitCap /\ [][NextEvictions]_vars

---------------------------------------------------------------------------
\* The SDK's breadcrumbs and captures with a context, sent to the worker.

\* a Breadcrumb whose optional timestamp the caller left out
NoTimestamp == -1
\* what "breadcrumb.timestamp || Date.now()" takes for a timestamp given
truthy(ts) == ts # NoTimestamp /\ ts # 0
\* {...breadcrumb, timestamp: breadcrumb.timestamp || Date.now()}
stampBreadcrumb(b, t) ==
    [b EXCEPT !.timestamp = IF truthy(@) THEN @ ELSE t]

\* The breadcrumb a caller builds: given and calledAt are history, the
\* timestamp field as the caller wrote it and the clock at the call.
CallerBreadcrumb(n, ts, d) ==
    [id |-> n, timestamp |-> ts, data |-> d, given |-> ts, calledAt |-> now]

\* this.remote.addBreadcrumb({...}) posted behind the messages in ch
postBreadcrumb(ch, b) ==
    Append(ch, Message("addBreadcrumb", stampBreadcrumb(b, now), nextId))

ContextData == "context"
\* timestamps a caller of addBreadcrumb passes
GivenTimestamps == {NoTimestamp, 0, Step}

\* TraceableSDK.addBreadcrumb(breadcrumb)
SdkAddBreadcrumb(ts) ==
    /\ made < MaxWorkerCrumbs + 1
    /\ Len(channel) < MaxInFlight
    /\ made' = made + 1
    /\ channel' = postBreadcrumb(channel, CallerBreadcrumb(made + 1, ts, PlainData))
    /\ op' = "sdk.addBreadcrumb"
    /\ UNCHANGED <<now, buffer, maxAgeMs, userInfo, tags, breadcrumbs, worker,
                   reply, nextId, history, dropped, sentBefore, held, configured, sdk>>

\* capture(reason, context) with a context: the 'capture' breadcrumb, then
\* exportData, both posted before anything else runs
postCapture(ch, reason, n) ==
    Append(postBreadcrumb(ch, CallerBreadcrumb(n, NoTimestamp, ContextData)),
           Message("exportData", reason, nextId) @@ [context |-> n])

\* TraceableSDK.capture(reason, context)
SdkCapture(reason) ==
    /\ made < MaxWorkerCrumbs + 1
    /\ Len(channel) + 1 < MaxInFlight
    /\ made' = made + 1
    /\ channel' = postCapture(channel, reason, made + 1)
    /\ op' = "sdk.capture"
    /\ UNCHANGED <<now, buffer, maxAgeMs, userInfo, tags, breadcrumbs, worker,
                   reply, nextId, history, dropped, sentBefore, held, configured, sdk>>

\* a call of a method the exposed api does not have: Comlink answers with
\* the TypeError and the worker's state stays as it is
missingMethod ==
    /\ reply' = Thrown
    /\ op' = "missingMethod"
    /\ dropped' = 0
    /\ UNCHANGED <<now, buffer, maxAgeMs, userInfo, tags, breadcrumbs, worker,
                   history>>

\* Comlink.expose(api), for the messages of a session with breadcrumbs
HandleSession ==
    /\ channel # <<>>
    /\ LET d == deliver(channel)
       IN  /\ channel' = d.rest
           /\ \/ d.msg.cmd = "addBreadcrumb" /\ worker = TagWorker
                    /\ addBreadcrumb(d.msg.arg)
              \/ d.msg.cmd = "addBreadcrumb" /\ worker = RecorderWorker
                    /\ missingMethod
              \/ d.msg.cmd = "exportData" /\ exportDataHandler(d.msg.arg)
    /\ UNCHANGED <<nextId, made, sentBefore, held, configured, sdk>>

NextCapture ==
    \/ TickForward
    \/ \E ts \in GivenTimestamps : SdkAddBreadcrumb(ts)
    \/ SdkCapture("manual")
    \/ Capture("manual")
    \/ HandleSession

SpecCapture == InitWorker /\ [][NextCapture]_vars

---------------------------------------------------------------------------
\* The SDK's lifecycle: init, start, stop, the recorder's emits, and the
\* worker handling what the SDK posts.

\* a start that records whether or not a recording is running
startOf_NoGuard(s, ok) ==
    [s EXCEPT !.stopFn = ok,
              !.recorders = IF ok THEN @ + 1 ELSE @,
              !.recorded = IF ok THEN "fn" ELSE "undefined"]

\* start(): ok says whether rrweb.record returned its stop function
startOf(s, ok) ==
    IF s.stopFn
    THEN [s EXCEPT !.recorded = "skipped"]
    ELSE [s EXCEPT !.stopFn = ok,
                   !.recorders = IF ok THEN @ + 1 ELSE @,
                   !.recorded = IF ok THEN "fn" ELSE "undefined"]

\* stop()
stopOf(s) ==
    IF s.stopFn
    THEN [s EXCEPT !.stopFn = FALSE, !.recorders = @ - 1]
    ELSE s

\* mountUI(): adds the host element unless it is there
mountUI(s) == [s EXCEPT !.uiMounted = TRUE]

\* init() called without options
NoOptions == [k \in {} |-> 0]
\* options objects passed to init()
InitArgs ==
    {NoOptions, [autoStart |-> TRUE], [bufferSizeMs |-> Step, plugins |-> 1],
     [bufferSizeMs |-> 0]}
        \cup {[sampleRate |-> r] : r \in SampleRates}

\* the sampling check of init()
sampledOut(options, draw) ==
    options.sampleRate # 0 /\ draw > options.sampleRate

\* init(options): the SDK afterwards and the messages it posts
initOf(s, opts, draw, ok) ==
    LET options == opts @@ s.options
        merged == [s EXCEPT !.options = options, !.inits = @ + 1, !.draw = draw]
    IN  IF sampledOut(options, draw)
        THEN [sdk |-> merged, posts |-> <<>>]
        ELSE LET installed == [merged EXCEPT !.installed = @ + options.plugins]
                 started == IF options.autoStart
                            THEN startOf(installed, ok) ELSE installed
             IN  [sdk |-> mountUI(started),
                  posts |-> IF options.bufferSizeMs # 0
                            THEN <<Message("setBufferSize", options.bufferSizeMs,
                                           nextId)>>
                            ELSE <<>>]

SdkInit(opts, draw, ok) ==
    /\ sdk.revision = CurrentSdk
    /\ sdk.inits < MaxInits
    /\ Len(channel) < MaxInFlight
    /\ sdk' = initOf(sdk, opts, draw, ok).sdk
    /\ channel' = channel \o initOf(sdk, opts, draw, ok).posts
    /\ op' = "sdk.init"
    /\ UNCHANGED <<now, buffer, maxAgeMs, userInfo, tags, breadcrumbs, worker,
                   reply, nextId, history, made, dropped, sentBefore, held,
                   configured>>

\* the earlier init(): starts the recording itself, then mounts the UI
LegacyInit(ok) ==
    /\ sdk.revision = LegacySdk
    /\ sdk' = IF sdk.stopFn
              THEN [sdk EXCEPT !.recorded = "skipped"]
              ELSE mountUI(startOf(sdk, ok))
    /\ op' = "sdk.start"
    /\ UNCHANGED <<now, buffer, maxAgeMs, userInfo, tags, breadcrumbs, worker,
                   reply, channel, nextId, history, made, dropped, sentBefore,
                   held, configured>>

SdkStart(ok) ==
    /\ sdk.revision = CurrentSdk
    /\ sdk' = startOf(sdk, ok)
    /\ op' = "sdk.start"
    /\ UNCHANGED <<now, buffer, maxAgeMs, userInfo, tags, breadcrumbs, worker,
                   reply, channel, nextId, history, made, dropped, sentBefore,
                   held, configured>>

SdkStop ==
    /\ sdk' = stopOf(sdk)
    /\ op' = "sdk.stop"
    /\ UNCHANGED <<now, buffer, maxAgeMs, userInfo, tags, breadcrumbs, worker,
                   reply, channel, nextId, history, made, dropped, sentBefore,
                   held, configured>>

\* a running rrweb recorder calls emit
RecorderEmit(e) == sdk.recorders > 0 /\ Emit(e)

\* Comlink.expose(api), for the messages of init() and of the recorder
HandleRecording ==
    /\ channel # <<>>
    /\ LET d == deliver(channel)
       IN  /\ channel' = d.rest
           /\ \/ d.msg.cmd = "addEvent" /\ addEvent(d.msg.arg)
                    /\ UNCHANGED configured
              \/ d.msg.cmd = "setBufferSize" /\ setBufferSize(d.msg.arg)
                    /\ configured' = d.msg.arg
    /\ UNCHANGED <<nextId, made, sentBefore, held, sdk>>

\* new TraceableSDK(): the earlier revision posts setBufferSize(30000) from
\* its constructor
InitLifecycle ==
    /\ now = 0
    /\ buffer = <<>>
    /\ maxAgeMs = DefaultMaxAgeMs
    /\ userInfo = Null
    /\ tags = NoTags
    /\ breadcrumbs = <<>>
    /\ worker \in Workers
    /\ reply = NoReply
    /\ \E rev \in SdkRevisions :
          /\ sdk = [NewSdk EXCEPT !.revision = rev]
          /\ channel = IF rev = LegacySdk
                       THEN <<Message("setBufferSize", DefaultMaxAgeMs, 0)>>
                       ELSE <<>>
    /\ nextId = 0
    /\ history = <<>>
    /\ made = 0
    /\ op = "new"
    /\ dropped = 0
    /\ sentBefore = 0
    /\ held = NoArray
    /\ configured = 0

NextLifecycle ==
    \/ \E opts \in InitArgs, draw \in Draws, ok \in BOOLEAN : SdkInit(opts, draw, ok)
    \/ \E ok \in BOOLEAN : LegacyInit(ok)
    \/ \E ok \in BOOLEAN : SdkStart(ok)
    \/ SdkStop
    \/ \E e \in StampedEvents({PlainData}) : nextId < MaxWorkerAdds /\ RecorderEmit(e)
    \/ HandleRecording

SpecLifecycle == InitLifecycle /\ [][NextLifecycle]_vars

---------------------------------------------------------------------------
\* Properties of the buffer.

IsSnapshot(e) == e.type = FullSnapshot
HasSnapshot(buf) == \E i \in 1..Len(buf) : IsSnapshot(buf[i])
InWindow(e) == e.timestamp >= now - maxAgeMs
\* the events handed to the buffer before event e
AddedBefore(e) == {history[i] : i \in 1..(e.id - history[1].id)}

C3_NoInvalidCollapse ==
    [][ (op' = "addEvent" /\ HasSnapshot(Append(buffer, history'[Len(history')])))
            => (buffer' # <<>> /\ HasSnapshot(buffer')) ]_vars

\* C3 witness: every event had expired and the buffer collapsed to its last
\* FullSnapshot.
C3_Witness ==
    /\ op = "addEvent" /\ dropped > 0
    /\ Len(buffer) = 1
    /\ IsSnapshot(buffer[1]) /\ ~InWindow(buffer[1])
    /\ buffer[1].id < nextId

\* C4 (the last maxAgeMs is kept): an event whose timestamp is
\* >= now - maxAgeMs when a prune runs is not removed by that prune, in any
\* timestamp order.
C4_InWindowKept ==
    [][ op' = "addEvent" =>
            \A e \in Range(buffer) \cup {history'[Len(history')]} :
                (e.timestamp >= now' - maxAgeMs') => e \in Range(buffer') ]_vars

\* C4 witness: a prune removed something while an in-window event that was
\* retained earlier, and is followed by an expired one, is still there.
C4_Witness ==
    /\ op = "addEvent" /\ dropped > 0
    /\ \E i \in 1..Len(buffer) :
          /\ InWindow(buffer[i])
          /\ buffer[i].id < nextId
          /\ \E j \in (i + 1)..Len(buffer) : ~InWindow(buffer[j])

---------------------------------------------------------------------------
\* Properties of the worker's commands.

Exported == op = "exportData" /\ reply.kind = "bundle"
\* what the viewer decodes from the bundle just returned
Decoded == processFile(reply.zip).events
JsonSafe(e) == e.data = PlainData

\* C2 as claimed (exported replay is always valid): after any sequence of
\* commands the event array written to recording.json is empty or starts
\* with a FullSnapshot or with the oldest event ever recorded.
C2_ExportReplayableAsClaimed ==
    Exported =>
        \/ Decoded = <<>>
        \/ IsSnapshot(Decoded[1])
        \/ Decoded[1].id = 1

C7_SetBufferSizeDiscardsAsClaimed ==
    op = "setBufferSize" => buffer = <<>>

\* C9 as claimed: right after clear() the buffer is empty, the identity is
\* null, tags is the empty mapping and breadcrumbs is the empty sequence.
C9_ClearResetsAllAsClaimed ==
    op = "clear" =>
        /\ buffer = <<>>
        /\ userInfo = Null
        /\ tags = NoTags
        /\ breadcrumbs = <<>>

\* C6 (command ordering): when the worker handles an exportData, every
\* addEvent the SDK sent before that call has been applied to the buffer and
\* none sent after it: the export's event array holds no later event, and
\* holds every earlier event that is still within the window.
C6_CommandOrdering ==
    (op = "exportData" /\ reply.kind = "bundle") =>
        /\ {history[i].id : i \in 1..Len(history)} = 1..sentBefore
        /\ \A i \in 1..Len(Decoded) : Decoded[i].id <= sentBefore
        /\ \A i \in 1..Len(history) :
              InWindow(history[i]) => history[i] \in Range(Decoded)

\* C6 witness: an export was handled after the events sent before it and
\* while an event sent after it was still waiting in the channel.
C6_Witness ==
    /\ op = "exportData" /\ reply.kind = "bundle"
    /\ sentBefore >= 2
    /\ Len(Decoded) >= 2
    /\ \E i \in 1..Len(channel) :
          channel[i].cmd = "addEvent" /\ channel[i].arg.id > sentBefore

\* C8 (breadcrumb cap): after n addBreadcrumb calls the stored sequence has
\* length min(n, 100) and holds the last min(n, 100) breadcrumbs added, in
\* insertion order.
C8_BreadcrumbCap ==
    LET n == made
        k == IF n < MaxBreadcrumbs THEN n ELSE MaxBreadcrumbs
    IN  /\ Len(breadcrumbs) = k
        /\ \A i \in 1..k : breadcrumbs[i].id = n - k + i

\* C8 witness: after 101 calls the length is 100 and the first stored element
\* is the second breadcrumb ever added.
C8_Witness ==
    /\ made = MaxBreadcrumbs + 1
    /\ Len(breadcrumbs) = MaxBreadcrumbs
    /\ breadcrumbs[1].id = 2

\* C10 (failed export is atomic): an exportData that throws leaves the buffer
\* contents, maxAgeMs, the identity, the tags and the breadcrumbs as they were.
C10_FailedExportAtomic ==
    [][ (op' = "exportData" /\ reply' = Thrown)
            => UNCHANGED <<buffer, maxAgeMs, userInfo, tags, breadcrumbs>> ]_vars

\* C10 witness: an export threw while the worker held events, an identity, a
\* tag and a breadcrumb.
C10_Witness ==
    /\ op = "exportData" /\ reply = Thrown
    /\ buffer # <<>>
    /\ userInfo # Null
    /\ tags # NoTags
    /\ breadcrumbs # <<>>

\* C11 (export does not mutate): a successful exportData leaves the buffer's
\* event sequence, the identity, the tags and the breadcrumbs as they were,
\* and an export that directly follows a successful export carries the same
\* event array.
C11_ExportReadOnly ==
    [][ (op' = "exportData" /\ reply'.kind = "bundle") =>
            /\ UNCHANGED <<buffer, userInfo, tags, breadcrumbs>>
            /\ Exported =>
                  reply'.zip["recording.json"] = reply.zip["recording.json"] ]_vars

\* C11 witness: a successful export of a buffer holding two events, with an
\* identity, a tag and a breadcrumb set.
C11_Witness ==
    /\ Exported
    /\ Len(buffer) = 2 /\ Len(Decoded) = 2
    /\ userInfo # Null
    /\ tags # NoTags
    /\ breadcrumbs # <<>>

\* C12 (getAll is a pure read of a copy): getAll() returns the buffer's
\* sequence and leaves the buffer as it was, two calls in a row return equal
\* sequences, and pushing to or popping from the returned array leaves the
\* buffer, and so what a later getAll() returns, unchanged.
C12_GetAllCopy ==
    [][ /\ op' = "getAll" => (buffer' = buffer /\ held'.items = buffer)
        /\ (op = "getAll" /\ op' = "getAll") => held'.items = held.items
        /\ op' \in {"callerPush", "callerPop"} => buffer' = buffer ]_vars

\* C12 witness: the caller pushed onto the array it got while the buffer held
\* two events, and the buffer still holds exactly those two.
C12_Witness ==
    /\ op = "callerPush"
    /\ Len(buffer) = 2
    /\ Len(held.items) = 3
    /\ \A i \in 1..2 : buffer[i].id = i

\* C13 as claimed (empty export is not an error): whenever exportData runs on
\* a buffer holding no events it returns a bundle whose recording.json
\* decodes to the empty array.
C13_EmptyExportAsClaimed ==
    (op = "exportData" /\ buffer = <<>>) =>
        (reply.kind = "bundle" /\ Decoded = <<>>)

\* C13 as amended: exportData on a buffer holding no events returns a bundle
\* whose recording.json decodes to the empty array whenever the session state
\* written to meta.json can be serialized, and throws when it cannot.
C13_EmptyExport ==
    (op = "exportData" /\ buffer = <<>>) =>
        IF canStringifyMeta(worker, userInfo, breadcrumbs)
        THEN reply.kind = "bundle" /\ Decoded = <<>>
        ELSE reply = Thrown

\* C13 witness: an export of a buffer that a prune had emptied returned a
\* bundle with the empty array.
C13_Witness ==
    /\ Exported
    /\ buffer = <<>>
    /\ history # <<>>
    /\ Decoded = <<>>
    /\ DOMAIN reply.zip = {"recording.json", "meta.json"}

---------------------------------------------------------------------------
\* The cases of a prune, stated on the sequence it starts from.

\* the buffer as prune finds it during the add that has just run
Appended == Append(buffer, history'[Len(history')])
ExpiredAt(e, t, age) == e.timestamp < t - age
\* position (from 1) of the last FullSnapshot among the first n elements
LastSnapshotPos(seq, n) ==
    CHOOSE i \in 1..n :
        IsSnapshot(seq[i]) /\ \A j \in (i + 1)..n : ~IsSnapshot(seq[j])
\* position (from 1) of the first element within the window
FirstValidPos(seq, t, age) ==
    CHOOSE i \in 1..Len(seq) :
        ~ExpiredAt(seq[i], t, age) /\ \A j \in 1..(i - 1) : ExpiredAt(seq[j], t, age)
\* some but not all events are in the window, the first one is not
PartlyExpired(seq, t, age) ==
    /\ ExpiredAt(seq[1], t, age)
    /\ \E i \in 1..Len(seq) : ~ExpiredAt(seq[i], t, age)

\* C15 (all-expired pruning): when after the append every event has
\* timestamp < now - maxAgeMs, the buffer becomes the one-element sequence of
\* the last FullSnapshot it held, or empty if it held none.
C15_AllExpired ==
    [][ (op' = "addEvent"
         /\ \A i \in 1..Len(Appended) : ExpiredAt(Appended[i], now', maxAgeMs'))
        => buffer' = IF HasSnapshot(Appended)
                     THEN <<Appended[LastSnapshotPos(Appended, Len(Appended))]>>
                     ELSE <<>> ]_vars

\* C15 witness: every event had expired and the buffer collapsed to the later
\* of two FullSnapshots, dropping the earlier one and a newer event.
C15_Witness ==
    /\ op = "addEvent" /\ dropped >= 2
    /\ Len(buffer) = 1
    /\ IsSnapshot(buffer[1]) /\ ~InWindow(buffer[1])
    /\ buffer[1].id < nextId
    /\ \E i \in 1..Len(history) :
          IsSnapshot(history[i]) /\ history[i].id < buffer[1].id

\* C16 (snapshot-anchored partial pruning): when the first event is expired,
\* some event is in the window and a FullSnapshot stands before the first
\* in-window event, the prune removes exactly the events before the nearest
\* such snapshot and keeps it and everything after it, in order.
C16_AnchoredPrune ==
    [][ (op' = "addEvent" /\ PartlyExpired(Appended, now', maxAgeMs')) =>
          LET f == FirstValidPos(Appended, now', maxAgeMs')
          IN  (\E i \in 1..(f - 1) : IsSnapshot(Appended[i])) =>
                 buffer' = SubSeq(Appended, LastSnapshotPos(Appended, f - 1),
                                  Len(Appended)) ]_vars

\* C16 witness: a prune dropped an older FullSnapshot and kept the nearest
\* one, itself expired, in front of the in-window events.
C16_Witness ==
    /\ op = "addEvent" /\ dropped > 0
    /\ Len(buffer) >= 2
    /\ IsSnapshot(buffer[1]) /\ ~InWindow(buffer[1])
    /\ \E i \in 2..Len(buffer) : InWindow(buffer[i])
    /\ IsSnapshot(history[1]) /\ history[1].id < buffer[1].id

\* C17 (unanchored partial pruning): when the first event is expired, some
\* event is in the window and no FullSnapshot stands before the first
\* in-window event, the prune removes exactly the events before that event
\* and keeps the rest in order, FullSnapshot or not.
C17_UnanchoredPrune ==
    [][ (op' = "addEvent" /\ PartlyExpired(Appended, now', maxAgeMs')) =>
          LET f == FirstValidPos(Appended, now', maxAgeMs')
          IN  (\A i \in 1..(f - 1) : ~IsSnapshot(Appended[i])) =>
                 buffer' = SubSeq(Appended, f, Len(Appended)) ]_vars

\* C17 witness: a prune cut at the first in-window event and left a buffer
\* without any FullSnapshot, an expired event still behind the first one.
C17_Witness ==
    /\ op = "addEvent" /\ dropped > 0
    /\ Len(buffer) >= 2
    /\ ~HasSnapshot(buffer)
    /\ InWindow(buffer[1])
    /\ ~InWindow(buffer[Len(buffer)])

\* C19 (pure append): when after the append the first event of the buffer is
\* within the window, the buffer is the previous buffer followed by the new
\* event, nothing removed.
C19_PureAppend ==
    [][ (op' = "addEvent" /\ ~ExpiredAt(Appended[1], now', maxAgeMs'))
            => buffer' = Append(buffer, history'[Len(history')]) ]_vars

\* C19 witness: an add removed nothing although an expired event stood behind
\* the in-window first one.
C19_Witness ==
    /\ op = "addEvent" /\ dropped = 0
    /\ Len(buffer) >= 2
    /\ InWindow(buffer[1])
    /\ \E j \in 2..Len(buffer) : ~InWindow(buffer[j])

\* C18 (bounded over-retention): with events stamped by the clock at
\* insertion and a FullSnapshot added at least every SnapshotPeriod, after
\* every add each retained event has
\* timestamp >= now - maxAgeMs - SnapshotPeriod.
C18_BoundedOverRetention ==
    op = "addEvent" =>
        \A i \in 1..Len(buffer) :
            buffer[i].timestamp >= now - maxAgeMs - SnapshotPeriod

\* C18 witness: a prune removed the oldest events and kept a FullSnapshot
\* older than the window, within one snapshot period of it.
C18_Witness ==
    /\ op = "addEvent" /\ dropped > 0
    /\ IsSnapshot(buffer[1])
    /\ buffer[1].timestamp < now - maxAgeMs
    /\ buffer[1].timestamp >= now - maxAgeMs - SnapshotPeriod
    /\ buffer[1].timestamp > 0

\* C20 as claimed (setBufferSize reconfigures the window): every addEvent
\* handled after a setBufferSize(ms) prunes with cutoff = now - ms, ms being
\* the value configured last.
C20_ConfiguredWindowAsClaimed ==
    [][ (op' = "addEvent" /\ configured # 0)
            => buffer' = add(buffer, configured, now, history'[Len(history')]) ]_vars

\* C21 (the buffer is a subsequence of what was added): the buffer holds
\* events added since its creation or last clear, each one unaltered, none
\* twice, in the order they were added; and when the event just added has
\* timestamp >= now - maxAgeMs it is the last element right after that add.
C21_OrderedSubsequence ==
    /\ \A i \in 1..Len(buffer) : buffer[i] \in Range(history)
    /\ \A i, j \in 1..Len(buffer) : i < j => buffer[i].id < buffer[j].id
    /\ (op = "addEvent" /\ InWindow(history[Len(history)])) =>
          (buffer # <<>> /\ buffer[Len(buffer)] = history[Len(history)])

\* C21 witness: the buffer holds the first and the third event added, the
\* second one removed from between them, the third in the window and last.
C21_Witness ==
    /\ op = "addEvent"
    /\ Len(buffer) = 2
    /\ buffer[1].id = 1 /\ buffer[2].id = 3
    /\ InWindow(buffer[2])

\* C22 as claimed (metadata reflects the session state): the meta.json of a
\* bundle carries the reason passed to exportData, "unknown" when none was
\* passed, the identity set last, the tag mapping with the value written
\* last per key, and the stored breadcrumbs in order.
C22_MetaReflectsStateAsClaimed ==
    [][ (op' = "exportData" /\ reply'.kind = "bundle") =>
          LET meta == reply'.zip["meta.json"]
          IN  /\ ExportData(defaultReason(Undefined)) => meta.reason = "unknown"
              /\ ExportData("manual") => meta.reason = "manual"
              /\ meta.userInfo = userInfo
              /\ "tags" \in DOMAIN meta /\ meta.tags = tags
              /\ "breadcrumbs" \in DOMAIN meta /\ meta.breadcrumbs = breadcrumbs
      ]_vars

\* C23 (setTag is an upsert, setUserInfo overwrites the identity only): after
\* setTag(key, value) tags[key] = value, every other key keeps its value and
\* the buffer, identity and breadcrumbs are unchanged; after setUserInfo(info)
\* the identity is info and the buffer, tags and breadcrumbs are unchanged.
C23_UpsertFrame ==
    [][ /\ \A key \in TagKeys, value \in TagValues :
              SetTag(key, value) =>
                 /\ DOMAIN tags' = DOMAIN tags \cup {key}
                 /\ tags'[key] = value
                 /\ \A k \in DOMAIN tags \ {key} : tags'[k] = tags[k]
                 /\ UNCHANGED <<buffer, maxAgeMs, userInfo, breadcrumbs>>
        /\ \A info \in Identities \cup UserInfos :
              SetUserInfo(info) =>
                 /\ userInfo' = info
                 /\ UNCHANGED <<buffer, maxAgeMs, tags, breadcrumbs>> ]_vars

\* C23 witness: a setTag has just written the second key while the buffer,
\* the identity and the breadcrumbs were all set.
C23_Witness ==
    /\ op = "setTag"
    /\ DOMAIN tags = TagKeys
    /\ tags["plan"] # tags["role"]
    /\ buffer # <<>>
    /\ userInfo \in Identities
    /\ breadcrumbs # <<>>

\* C24 (the two evictions are independent): addBreadcrumb, also when it
\* evicts the oldest breadcrumb, leaves the buffer as it was; addEvent, also
\* when its prune removes events or empties the buffer, leaves the
\* breadcrumbs, the tags and the identity as they were.
C24_IndependentEviction ==
    [][ /\ op' = "addBreadcrumb" => UNCHANGED <<buffer, maxAgeMs>>
        /\ op' = "addEvent" => UNCHANGED <<breadcrumbs, tags, userInfo>> ]_vars

\* C24 witness: an add whose prune emptied the buffer, after the breadcrumb
\* log had already evicted its oldest entry, with the log still full.
C24_Witness ==
    /\ op = "addEvent" /\ dropped > 0
    /\ buffer = <<>>
    /\ made > MaxBreadcrumbs
    /\ Len(breadcrumbs) = MaxBreadcrumbs
    /\ breadcrumbs[1].id = made - MaxBreadcrumbs + 1
    /\ userInfo # Null

\* C25 as claimed (capture context comes first): when the worker handles the
\* exportData of a capture that had a context, the bundle's meta.json lists
\* that capture's context breadcrumb as the last of its breadcrumbs.
C25_ContextBreadcrumbLastAsClaimed ==
    [][ (/\ channel # <<>>
         /\ channel' = Tail(channel)
         /\ op' = "exportData"
         /\ "context" \in DOMAIN Head(channel)
         /\ reply'.kind = "bundle") =>
          LET meta == reply'.zip["meta.json"]
          IN  /\ "breadcrumbs" \in DOMAIN meta
              /\ meta.breadcrumbs # <<>>
              /\ meta.breadcrumbs[Len(meta.breadcrumbs)].id = Head(channel).context
              /\ meta.breadcrumbs[Len(meta.breadcrumbs)].data = ContextData ]_vars

\* C26 as claimed (timestamp stamped if absent, kept otherwise): every stored
\* breadcrumb has a timestamp, the one the caller gave whenever the caller gave
\* one, and the time of the call when the caller gave none.
C26_TimestampKeptAsClaimed ==
    \A i \in 1..Len(breadcrumbs) :
        /\ breadcrumbs[i].timestamp # NoTimestamp
        /\ breadcrumbs[i].timestamp =
              IF breadcrumbs[i].given # NoTimestamp
              THEN breadcrumbs[i].given
              ELSE breadcrumbs[i].calledAt

C28_SampleRateAsClaimed ==
    [][ op' = "sdk.init" =>
          LET options == sdk'.options
          IN  IF sdk'.draw <= options.sampleRate
              THEN /\ sdk'.uiMounted
                   /\ sdk'.installed = sdk.installed + options.plugins
                   /\ options.bufferSizeMs # 0 =>
                         channel' = Append(channel,
                             Message("setBufferSize", options.bufferSizeMs, nextId))
                   /\ (options.autoStart /\ ~sdk.stopFn) => sdk'.recorded # "skipped"
              ELSE /\ sdk'.uiMounted = sdk.uiMounted
                   /\ sdk'.installed = sdk.installed
                   /\ channel' = channel
                   /\ sdk'.stopFn = sdk.stopFn
                   /\ sdk'.recorders = sdk.recorders ]_vars

====
